---- MODULE Spec2Model ----
(***************************************************************************)
(* Model of og_tree_to_table.py: get_combinatorial_triplets, the walk from *)
(* every ingroup leaf towards the root that collects the closest sister    *)
(* and outgroup leaves and tabulates their cross product.                  *)
(*                                                                         *)
(* A name is a sequence of character codes (Python compares and searches   *)
(* strings code point by code point).  A tree is a record of two           *)
(* sequences indexed by node: up (the parent, 0 for the root) and name     *)
(* (<<>> for an internal node).  Nodes are numbered in preorder, so the    *)
(* children of a node, its sisters and its leaves are met in increasing    *)
(* node order.                                                             *)
(***************************************************************************)
EXTENDS Integers, Sequences, FiniteSets, TLC

VARIABLES tree, ingroup_prefix, sister_prefix, outg_prefix, relabel,
          pc, it, node, sisters, outgroups, trace, outg_too_soon,
          data, result, prev

vars == <<tree, ingroup_prefix, sister_prefix, outg_prefix, relabel,
          pc, it, node, sisters, outgroups, trace, outg_too_soon,
          data, result, prev>>

inputs == <<tree, ingroup_prefix, sister_prefix, outg_prefix>>

(* ------------------------------ bounds -------------------------------- *)

MaxNodes == 5

MaxNodesDeep == 9

(* ----------------------------- characters ----------------------------- *)

Underscore == 95

ogid == "OG"

(* ------------------------------ the tree ------------------------------ *)

NodesOf(t) == 1..Len(t.up)

NodeSeq(t) == [i \in 1..Len(t.up) |-> i]

is_leaf(t, n) == \A c \in NodesOf(t) : t.up[c] # n

RECURSIVE AncestorsOrSelf(_, _)
AncestorsOrSelf(up, n) ==
    IF n = 0 THEN {} ELSE {n} \cup AncestorsOrSelf(up, up[n])

\* tree[:tree.ntips]: the leaves, in order
Leaves(t) == SelectSeq(NodeSeq(t), LAMBDA n : is_leaf(t, n))

\* Node.get_sisters(): the other children of the parent, in child order
get_sisters(t, n) ==
    SelectSeq(NodeSeq(t), LAMBDA c : c # n /\ t.up[c] = t.up[n])

\* Node.get_leaf_names(): the names of the leaves at or below n, in order
get_leaf_names(t, n) ==
    LET below == SelectSeq(NodeSeq(t),
                     LAMBDA x : is_leaf(t, x) /\ n \in AncestorsOrSelf(t.up, x))
    IN  [k \in 1..Len(below) |-> t.name[below[k]]]

(* ------------------------------ strings ------------------------------- *)

\* str.startswith(p)
startswith(s, p) == Len(p) <= Len(s) /\ SubSeq(s, 1, Len(p)) = p

AnyStartswith(tips, p) == \E k \in 1..Len(tips) : startswith(tips[k], p)

RECURSIVE RemoveAll(_)
RemoveAll(s) ==
    IF s = <<>> THEN <<>>
    ELSE IF Head(s) = Underscore THEN RemoveAll(Tail(s))
    ELSE <<Head(s)>> \o RemoveAll(Tail(s))

\* str.replace("_", "", 1): scan from the left, drop the first match only
RECURSIVE replace_first(_)
replace_first(s) ==
    IF s = <<>> THEN <<>>
    ELSE IF Head(s) = Underscore THEN Tail(s)
    ELSE <<Head(s)>> \o replace_first(Tail(s))

\* Python's < on strings: the first differing code point decides, a proper
\* prefix is smaller
StrLess(a, b) ==
    \E k \in 1..(Len(b)) :
        /\ \A j \in 1..(k - 1) : j <= Len(a) /\ a[j] = b[j]
        /\ (k > Len(a) \/ (k <= Len(a) /\ a[k] < b[k]))

(* --------------------- the two searches (one step) -------------------- *)

RECURSIVE ScanSistersNoGuard(_, _, _, _)
ScanSistersNoGuard(cands, k, flag, sis) ==
    IF k > Len(cands) THEN [outg_too_soon |-> flag, sisters |-> sis]
    ELSE LET tips == get_leaf_names(tree, cands[k])
             soon == AnyStartswith(tips, outg_prefix)
         IN  ScanSistersNoGuard(cands, k + 1,
                 IF soon THEN "True" ELSE "False",
                 sis \o SelectSeq(tips,
                            LAMBDA x : startswith(x, sister_prefix)))

\* lines 56-66: the for loop over the candidates of one ascent step;
\* outg_too_soon is assigned anew for every candidate
RECURSIVE ScanSisters(_, _, _, _)
ScanSisters(cands, k, flag, sis) ==
    IF k > Len(cands) THEN [outg_too_soon |-> flag, sisters |-> sis]
    ELSE LET tips == get_leaf_names(tree, cands[k])
             soon == AnyStartswith(tips, outg_prefix)
         IN  ScanSisters(cands, k + 1,
                 IF soon THEN "True" ELSE "False",
                 IF soon THEN sis
                 ELSE sis \o SelectSeq(tips,
                                 LAMBDA x : startswith(x, sister_prefix)))

\* lines 80-83: the for loop over the candidates of one outgroup step
RECURSIVE ScanOutgroups(_, _, _)
ScanOutgroups(cands, k, outs) ==
    IF k > Len(cands) THEN outs
    ELSE ScanOutgroups(cands, k + 1,
             outs \o SelectSeq(get_leaf_names(tree, cands[k]),
                         LAMBDA x : startswith(x, outg_prefix)))

(* ------------------------------ the rows ------------------------------ *)

Names(nm, sis, og, rl) ==
    IF rl THEN <<replace_first(nm), replace_first(sis), replace_first(og)>>
    ELSE <<nm, sis, og>>

EmitRowsZip(nm, sis, outs, rl) ==
    [k \in 1..(IF Len(sis) < Len(outs) THEN Len(sis) ELSE Len(outs)) |->
        <<ogid>> \o Names(nm, sis[k], outs[k], rl)]

\* lines 89-97: one row per sister and outgroup, sisters outermost
EmitRows(nm, sis, outs, rl) ==
    IF sis # <<>> /\ outs # <<>>
    THEN [k \in 1..(Len(sis) * Len(outs)) |->
            <<ogid>> \o Names(nm, sis[((k - 1) \div Len(outs)) + 1],
                                  outs[((k - 1) % Len(outs)) + 1], rl)]
    ELSE <<>>

(* ------------------------------ the table ----------------------------- *)

\* pd.DataFrame(data, columns=[...]): rows indexed 0..n-1 in data order
DataFrame(d) ==
    [k \in 1..Len(d) |->
        [index |-> k - 1, OG |-> d[k][1], ingroup |-> d[k][2],
         sister |-> d[k][3], outgroup |-> d[k][4]]]

PairLess(a1, a2, b1, b2) == StrLess(a1, b1) \/ (a1 = b1 /\ StrLess(a2, b2))

\* groupby(['sister']).ngroup(): the rank of the row's key among the
\* sorted distinct keys
ngroup_sister(df, k) ==
    Cardinality({s \in {df[j].sister : j \in 1..Len(df)} :
                    StrLess(s, df[k].sister)})

ngroup_sister_og_outgroup_only(df, k) ==
    Cardinality({o \in {df[j].outgroup : j \in 1..Len(df)} :
                    StrLess(o, df[k].outgroup)})

\* groupby(['sister', 'outgroup']).ngroup()
ngroup_sister_og(df, k) ==
    Cardinality({p \in {<<df[j].sister, df[j].outgroup>> : j \in 1..Len(df)} :
                    PairLess(p[1], p[2], df[k].sister, df[k].outgroup)})

AddGroups(df) ==
    [k \in 1..Len(df) |->
        [index |-> df[k].index, OG |-> df[k].OG, ingroup |-> df[k].ingroup,
         sister |-> df[k].sister, outgroup |-> df[k].outgroup,
         same_sister |-> ngroup_sister(df, k),
         same_sister_and_og |-> ngroup_sister_og(df, k)]]

KeyLessDescending(r, q) ==
    \/ PairLess(q.sister, q.outgroup, r.sister, r.outgroup)
    \/ r.sister = q.sister /\ r.outgroup = q.outgroup
                           /\ StrLess(q.ingroup, r.ingroup)

\* by=["sister", "outgroup", "ingroup"]
KeyLess(r, q) ==
    \/ PairLess(r.sister, r.outgroup, q.sister, q.outgroup)
    \/ r.sister = q.sister /\ r.outgroup = q.outgroup
                           /\ StrLess(r.ingroup, q.ingroup)

\* sort_values: a stable sort, a row goes after the rows not greater
RECURSIVE Insert(_, _)
Insert(r, s) ==
    IF s = <<>> THEN <<r>>
    ELSE IF KeyLess(r, Head(s)) THEN <<r>> \o s
    ELSE <<Head(s)>> \o Insert(r, Tail(s))

RECURSIVE sort_values(_)
sort_values(df) ==
    IF df = <<>> THEN <<>>
    ELSE Insert(df[Len(df)], sort_values(SubSeq(df, 1, Len(df) - 1)))

\* reset_index(drop=True)
reset_index(df) ==
    [k \in 1..Len(df) |->
        [index |-> k - 1, OG |-> df[k].OG, ingroup |-> df[k].ingroup,
         sister |-> df[k].sister, outgroup |-> df[k].outgroup,
         same_sister |-> df[k].same_sister,
         same_sister_and_og |-> df[k].same_sister_and_og]]

Table(d) == reset_index(sort_values(AddGroups(DataFrame(d))))

None == [kind |-> "None", df |-> <<>>]

Pending == [kind |-> "pending", df |-> <<>>]

UnboundLocalError == [kind |-> "UnboundLocalError", df |-> <<>>]

ReturnValueAlwaysTable(d) == [kind |-> "table", df |-> Table(d)]

\* lines 99-109
ReturnValue(d) ==
    IF d = <<>> THEN None ELSE [kind |-> "table", df |-> Table(d)]

(* ------------------------------ inputs -------------------------------- *)

RECURSIVE Shapes(_)
Shapes(n) ==
    IF n = 1 THEN {<<0>>}
    ELSE UNION {{Append(p, q) : q \in AncestorsOrSelf(p, n - 1)} :
                    p \in Shapes(n - 1)}

LeafSet(up) == {n \in 1..Len(up) : \A c \in 1..Len(up) : up[c] # n}

NoUnary(up) ==
    \A n \in 1..Len(up) : Cardinality({c \in 1..Len(up) : up[c] = n}) # 1

Labelled(up, pool) ==
    {[up |-> up,
      name |-> [n \in 1..Len(up) |-> IF n \in DOMAIN f THEN f[n] ELSE <<>>]] :
        f \in [LeafSet(up) -> pool]}

AllShapes(maxn) == UNION {Shapes(sz) : sz \in 1..maxn}

\* "A_1", "A1", "C_1", "C_1_2", "G_1", "G_2"
NamePool ==
    {<<65, 95, 49>>, <<65, 49>>, <<67, 95, 49>>, <<67, 95, 49, 95, 50>>,
     <<71, 95, 49>>, <<71, 95, 50>>}

\* -i A -s C -o G   and   -i A_ -s C_ -o G_ (under which "A1" has no role)
PrefixPool ==
    {<<<<65>>, <<67>>, <<71>>>>, <<<<65, 95>>, <<67, 95>>, <<71, 95>>>>}

\* "A_1", "C_1", "G_1", "X1"
SmallPool == {<<65, 95, 49>>, <<67, 95, 49>>, <<71, 95, 49>>, <<88, 49>>}

\* every choice of prefixes among "", and "A" / "C" / "G", one at least empty
EmptyPrefixPool ==
    {p \in {<<>>, <<65>>} \X {<<>>, <<67>>} \X {<<>>, <<71>>} :
        <<>> \in {p[1], p[2], p[3]}}

\* trees in which every internal node has two children or more; the first
\* leaf is the one ingroup leaf, every other leaf is a sister ("C"), an
\* outgroup ("G") or neither ("X"), and a leaf is named after its role and
\* its node, as in "C_5", so that no two leaves share a name
LabelledDeep(up) ==
    LET leafs == LeafSet(up)
        first == CHOOSE x \in leafs : \A y \in leafs : x <= y
    IN  {[up |-> up,
          name |-> [n \in 1..Len(up) |->
                       IF n = first THEN <<65, 95, 48 + n>>
                       ELSE IF n \in DOMAIN f THEN <<f[n], 95, 48 + n>>
                       ELSE <<>>]] :
            f \in [leafs \ {first} -> {67, 71, 88}]}

DeepShapes(maxn) == {s \in AllShapes(maxn) : NoUnary(s)}

Locals ==
    /\ pc = "for"
    /\ it = 1
    /\ node = 0
    /\ sisters = <<>>
    /\ outgroups = <<>>
    /\ trace = 0
    /\ outg_too_soon = "unbound"
    /\ data = <<>>
    /\ result = Pending

Init ==
    /\ \E up \in AllShapes(MaxNodes) : tree \in Labelled(up, NamePool)
    /\ \E p \in PrefixPool :
        /\ ingroup_prefix = p[1]
        /\ sister_prefix = p[2]
        /\ outg_prefix = p[3]
    /\ relabel = FALSE
    /\ prev = Pending
    /\ Locals

InitEmpty ==
    /\ \E up \in AllShapes(MaxNodes) : tree \in Labelled(up, SmallPool)
    /\ \E p \in EmptyPrefixPool :
        /\ ingroup_prefix = p[1]
        /\ sister_prefix = p[2]
        /\ outg_prefix = p[3]
    /\ relabel = FALSE
    /\ prev = Pending
    /\ Locals

InitDeep ==
    /\ \E up \in DeepShapes(MaxNodesDeep) : tree \in LabelledDeep(up)
    /\ ingroup_prefix = <<65>>
    /\ sister_prefix = <<67>>
    /\ outg_prefix = <<71>>
    /\ relabel = FALSE
    /\ prev = Pending
    /\ Locals

(* ------------------------------ actions ------------------------------- *)

\* line 41: the leaves are exhausted
ForDone ==
    /\ pc = "for"
    /\ it > Len(Leaves(tree))
    /\ pc' = "return"
    /\ UNCHANGED <<inputs, relabel, it, node, sisters, outgroups, trace,
                   outg_too_soon, data, result, prev>>

\* lines 41-45: a leaf that is no ingroup leaf is passed over
ForSkip ==
    /\ pc = "for"
    /\ it <= Len(Leaves(tree))
    /\ ~startswith(tree.name[Leaves(tree)[it]], ingroup_prefix)
    /\ node' = Leaves(tree)[it]
    /\ it' = it + 1
    /\ UNCHANGED <<inputs, relabel, pc, sisters, outgroups, trace,
                   outg_too_soon, data, result, prev>>

ForEnterKeepLists ==
    /\ pc = "for"
    /\ it <= Len(Leaves(tree))
    /\ startswith(tree.name[Leaves(tree)[it]], ingroup_prefix)
    /\ node' = Leaves(tree)[it]
    /\ trace' = Leaves(tree)[it]
    /\ pc' = "sister"
    /\ UNCHANGED <<inputs, relabel, it, sisters, outgroups, outg_too_soon,
                   data, result, prev>>

\* lines 41-52: an ingroup leaf starts its searches with empty lists
ForEnter ==
    /\ pc = "for"
    /\ it <= Len(Leaves(tree))
    /\ startswith(tree.name[Leaves(tree)[it]], ingroup_prefix)
    /\ node' = Leaves(tree)[it]
    /\ sisters' = <<>>
    /\ outgroups' = <<>>
    /\ trace' = Leaves(tree)[it]
    /\ pc' = "sister"
    /\ UNCHANGED <<inputs, relabel, it, outg_too_soon, data, result, prev>>

\* lines 53-75: one test of the while condition and, with a parent above
\* trace, one ascent step of the sister search
SisterWhile ==
    /\ pc = "sister"
    /\ IF tree.up[trace] = 0
       THEN /\ pc' = "outgroup"
            /\ UNCHANGED <<sisters, trace, outg_too_soon, result>>
       ELSE LET scan == ScanSisters(get_sisters(tree, trace), 1,
                                    outg_too_soon, sisters)
            IN  IF scan.outg_too_soon = "unbound"
                THEN \* line 69 reads a local that was never assigned
                     /\ result' = UnboundLocalError
                     /\ pc' = "done"
                     /\ UNCHANGED <<sisters, trace, outg_too_soon>>
                ELSE /\ outg_too_soon' = scan.outg_too_soon
                     /\ sisters' = scan.sisters
                     /\ result' = result
                     /\ IF scan.outg_too_soon = "True"
                        THEN trace' = trace /\ pc' = "outgroup"
                        ELSE /\ trace' = tree.up[trace]
                             /\ pc' = IF scan.sisters # <<>>
                                      THEN "outgroup" ELSE "sister"
    /\ UNCHANGED <<inputs, relabel, it, node, outgroups, data, prev>>

\* lines 78-86: one test of the while condition and, with a parent above
\* trace, one ascent step of the outgroup search
OutgroupWhile ==
    /\ pc = "outgroup"
    /\ IF tree.up[trace] = 0
       THEN /\ pc' = "emit"
            /\ UNCHANGED <<outgroups, trace>>
       ELSE /\ outgroups' = ScanOutgroups(get_sisters(tree, trace), 1,
                                          outgroups)
            /\ trace' = tree.up[trace]
            /\ pc' = IF outgroups' # <<>> THEN "emit" ELSE "outgroup"
    /\ UNCHANGED <<inputs, relabel, it, node, sisters, outg_too_soon,
                   data, result, prev>>

\* lines 88-97, and on to the next leaf
Emit ==
    /\ pc = "emit"
    /\ data' = data \o EmitRows(tree.name[node], sisters, outgroups, relabel)
    /\ it' = it + 1
    /\ pc' = "for"
    /\ UNCHANGED <<inputs, relabel, node, sisters, outgroups, trace,
                   outg_too_soon, result, prev>>

\* lines 99-101
ReturnNone ==
    /\ pc = "return"
    /\ ReturnValue(data).kind = "None"
    /\ result' = ReturnValue(data)
    /\ pc' = "done"
    /\ UNCHANGED <<inputs, relabel, it, node, sisters, outgroups, trace,
                   outg_too_soon, data, prev>>

\* lines 103-109
ReturnTable ==
    /\ pc = "return"
    /\ ReturnValue(data).kind = "table"
    /\ result' = ReturnValue(data)
    /\ pc' = "done"
    /\ UNCHANGED <<inputs, relabel, it, node, sisters, outgroups, trace,
                   outg_too_soon, data, prev>>

\* a second call on the same tree and prefixes, now with --relabel: every
\* local of the first call is gone, its return value is kept in prev
CallAgain ==
    /\ pc = "done"
    /\ ~relabel
    /\ prev' = result
    /\ relabel' = TRUE
    /\ pc' = "for"
    /\ it' = 1
    /\ node' = 0
    /\ sisters' = <<>>
    /\ outgroups' = <<>>
    /\ trace' = 0
    /\ outg_too_soon' = "unbound"
    /\ data' = <<>>
    /\ result' = Pending
    /\ UNCHANGED inputs

Next ==
    \/ ForDone
    \/ ForSkip
    \/ ForEnter
    \/ SisterWhile
    \/ OutgroupWhile
    \/ Emit
    \/ ReturnNone
    \/ ReturnTable
    \/ CallAgain

Spec == Init /\ [][Next]_vars

SpecEmpty == InitEmpty /\ [][Next]_vars

SpecDeep == InitDeep /\ [][Next]_vars

(* ------------------------- helpers of the claims ---------------------- *)

HasUnderscore(s) == \E k \in 1..Len(s) : s[k] = Underscore

\* s with its first underscore taken out, every later one kept
WithoutFirstUnderscore(s) ==
    IF HasUnderscore(s)
    THEN LET k == CHOOSE x \in 1..Len(s) :
                      s[x] = Underscore /\ \A y \in 1..(x - 1) : s[y] # Underscore
         IN  SubSeq(s, 1, k - 1) \o SubSeq(s, k + 1, Len(s))
    ELSE s

Emitted(nm) == IF relabel THEN WithoutFirstUnderscore(nm) ELSE nm

LeafNameSet == {tree.name[n] : n \in LeafSet(tree.up)}

DistinctLeafNames ==
    \A x, y \in LeafSet(tree.up) : tree.name[x] = tree.name[y] => x = y

DistinctEmittedNames ==
    \A x, y \in LeafSet(tree.up) :
        Emitted(tree.name[x]) = Emitted(tree.name[y]) => x = y

HasUnaryNode == ~NoUnary(tree.up)

Triple(r) == <<r.ingroup, r.sister, r.outgroup>>

\* (sister, outgroup, ingroup) of r is not after that of q
TripleLeq(r, q) ==
    \/ StrLess(r.sister, q.sister)
    \/ /\ r.sister = q.sister
       /\ \/ StrLess(r.outgroup, q.outgroup)
          \/ /\ r.outgroup = q.outgroup
             /\ (StrLess(r.ingroup, q.ingroup) \/ r.ingroup = q.ingroup)

\* the same rows, each as many times
SameCollection(a, b) ==
    /\ Len(a) = Len(b)
    /\ \A k \in 1..Len(a) :
          Cardinality({j \in 1..Len(a) : a[j] = a[k]})
              = Cardinality({j \in 1..Len(b) : b[j] = a[k]})

\* some sibling subtree of t holds a leaf whose name starts with p
SiblingHas(t, p) ==
    \E k \in 1..Len(get_sisters(tree, t)) :
        AnyStartswith(get_leaf_names(tree, get_sisters(tree, t)[k]), p)

\* the steps of the ascent from the ingroup leaf at which a sibling subtree
\* holds a sister-prefixed leaf
SisterSteps ==
    {t \in AncestorsOrSelf(tree.up, node) :
        tree.up[t] # 0 /\ SiblingHas(t, sister_prefix)}

Returned == pc = "done" /\ result.kind # "UnboundLocalError"

(* -------------------------------- claims ------------------------------ *)

\* C1: once the sister search executes an ascent step at which some sibling
\* subtree of the current node holds an outgroup-prefixed leaf, the search
\* stops with no sister for the leaf, the sister list stays empty through the
\* outgroup search and no row is appended for the leaf.
C1_Precedence ==
    [][/\ (pc = "sister" /\ tree.up[trace] # 0 /\ SiblingHas(trace, outg_prefix))
            => (pc' = "outgroup" /\ sisters' = <<>>)
       /\ (pc = "outgroup") => (sisters' = sisters)
       /\ (pc = "emit" /\ sisters = <<>>) => (data' = data)]_vars

\* C2: the rows of a returned table are in ascending order of
\* (sister, outgroup, ingroup) and row k (from 0) has index k.
C2_Sorted ==
    result.kind = "table" =>
        \A k \in 1..Len(result.df) :
            /\ result.df[k].index = k - 1
            /\ k < Len(result.df) => TripleLeq(result.df[k], result.df[k + 1])

\* a table of several rows that were discovered in another order
C2_Witness ==
    /\ result.kind = "table"
    /\ \E k \in 1..(Len(data) - 1) :
          \/ StrLess(data[k + 1][3], data[k][3])
          \/ data[k + 1][3] = data[k][3] /\ StrLess(data[k + 1][4], data[k][4])

\* C3: two rows of a returned table have the same same_sister id exactly
\* when their sisters are equal, and the same same_sister_and_og id exactly
\* when their sisters and their outgroups are equal.
C3_GroupIds ==
    result.kind = "table" =>
        \A j, k \in 1..Len(result.df) :
            /\ (result.df[j].same_sister = result.df[k].same_sister)
                   <=> (result.df[j].sister = result.df[k].sister)
            /\ (result.df[j].same_sister_and_og = result.df[k].same_sister_and_og)
                   <=> (/\ result.df[j].sister = result.df[k].sister
                        /\ result.df[j].outgroup = result.df[k].outgroup)

\* a table with two rows of one outgroup and two sisters, the larger sister
\* discovered first
C3_Witness ==
    /\ result.kind = "table"
    /\ \E k \in 1..(Len(data) - 1) :
          data[k + 1][4] = data[k][4] /\ StrLess(data[k + 1][3], data[k][3])

\* C4: the rows returned with relabel on are the rows returned with relabel
\* off, each name without its first underscore; with relabel off every name
\* of a row is the name of a leaf of the tree.
C4_Relabel ==
    /\ (pc = "done" /\ relabel) =>
          /\ result.kind = prev.kind
          /\ SameCollection(
                 [k \in 1..Len(result.df) |-> Triple(result.df[k])],
                 [k \in 1..Len(prev.df) |->
                     <<WithoutFirstUnderscore(prev.df[k].ingroup),
                       WithoutFirstUnderscore(prev.df[k].sister),
                       WithoutFirstUnderscore(prev.df[k].outgroup)>>])
    /\ (pc = "done" /\ ~relabel) =>
          \A k \in 1..Len(result.df) :
              {result.df[k].ingroup, result.df[k].sister, result.df[k].outgroup}
                  \subseteq LeafNameSet

\* both calls are over and a name with two underscores was relabelled
C4_Witness ==
    /\ pc = "done"
    /\ relabel
    /\ result.kind = "table"
    /\ \E k \in 1..Len(prev.df) :
          /\ prev.df[k].sister = <<67, 95, 49, 95, 50>>
          /\ \E j \in 1..Len(result.df) : result.df[j].sister = <<67, 49, 95, 50>>

C6_EmptyPrefixAbsent ==
    (pc = "done" /\ <<>> \in {ingroup_prefix, sister_prefix, outg_prefix})
        => result.kind = "None"

\* C6 as amended: with an empty outgroup prefix no table is returned, the
\* call gives None unless it raises, and it raises only on a tree that has
\* an internal node with a single child.
C6_EmptyOutgroupAbsent ==
    /\ (pc = "done" /\ outg_prefix = <<>>) => result.kind # "table"
    /\ (pc = "done" /\ ~HasUnaryNode) => result.kind # "UnboundLocalError"

\* None is returned under an empty outgroup prefix although an ingroup leaf
\* had a sister-prefixed leaf among its siblings
C6_Witness ==
    /\ pc = "done"
    /\ outg_prefix = <<>>
    /\ sister_prefix # <<>>
    /\ result.kind = "None"
    /\ node # 0
    /\ startswith(tree.name[node], ingroup_prefix)
    /\ tree.up[node] # 0
    /\ SiblingHas(node, sister_prefix)

\* C7 as stated: on a tree of pairwise distinct leaf names no two rows of
\* the returned table have the same (ingroup, sister, outgroup).
C7_NoDuplicateRows ==
    (result.kind = "table" /\ DistinctLeafNames) =>
        \A j, k \in 1..Len(result.df) :
            Triple(result.df[j]) = Triple(result.df[k]) => j = k

\* C7 as amended: no two rows are the same when the leaf names are pairwise
\* distinct as they are emitted (without their first underscore when
\* relabel is on).
C7_NoDuplicateRowsEmitted ==
    (result.kind = "table" /\ DistinctLeafNames /\ DistinctEmittedNames) =>
        \A j, k \in 1..Len(result.df) :
            Triple(result.df[j]) = Triple(result.df[k]) => j = k

\* a relabelled table of several rows from distinct names
C7_Witness ==
    /\ result.kind = "table"
    /\ relabel
    /\ DistinctLeafNames
    /\ DistinctEmittedNames
    /\ Len(result.df) >= 2

\* C8: on a tree of pairwise distinct leaf names, every sister of the rows
\* of an ingroup leaf is a leaf of a sibling subtree of the lowest step of
\* its ascent at which a sibling subtree holds a sister-prefixed leaf.
C8_NearestSister ==
    (pc = "emit" /\ sisters # <<>> /\ outgroups # <<>> /\ DistinctLeafNames) =>
        \E t \in SisterSteps :
            /\ \A u \in SisterSteps : u \in AncestorsOrSelf(tree.up, t)
            /\ \A k \in 1..Len(sisters) :
                  \E c \in 1..Len(get_sisters(tree, t)) :
                      \E x \in 1..Len(get_leaf_names(tree, get_sisters(tree, t)[c])) :
                          get_leaf_names(tree, get_sisters(tree, t)[c])[x] = sisters[k]

\* C9: the rows appended for an ingroup leaf are one row
\* (ogid, leaf, sister, outgroup) for every pair of a collected sister and a
\* collected outgroup, none when either list is empty, the leaf is an
\* ingroup-prefixed leaf, and no other step appends a row.
C9_CrossProduct ==
    [][/\ (pc = "emit") =>
            /\ is_leaf(tree, node)
            /\ startswith(tree.name[node], ingroup_prefix)
            /\ Len(data') = Len(data) + Len(sisters) * Len(outgroups)
            /\ SubSeq(data', 1, Len(data)) = data
            /\ \A i \in 1..Len(sisters) : \A j \in 1..Len(outgroups) :
                  data'[Len(data) + (i - 1) * Len(outgroups) + j]
                      = <<ogid, Emitted(tree.name[node]),
                          Emitted(sisters[i]), Emitted(outgroups[j])>>
       /\ (pc \in {"for", "sister", "outgroup", "return"}) => (data' = data)]_vars

\* the rows of a leaf with two sisters or two outgroups have been appended
C9_Witness ==
    /\ pc = "for"
    /\ node # 0
    /\ startswith(tree.name[node], ingroup_prefix)
    /\ Len(sisters) * Len(outgroups) >= 2
    /\ Len(data) >= Len(sisters) * Len(outgroups)

\* C10: when the outgroups of a leaf that has sisters are collected among
\* the siblings of a node, every sister is a leaf at or below that node, so
\* that each sister joins the ingroup leaf strictly below each outgroup.
C10_OutgroupFarther ==
    [][(pc = "outgroup" /\ sisters # <<>> /\ outgroups' # <<>>) =>
          \A k \in 1..Len(sisters) :
              \E x \in 1..Len(get_leaf_names(tree, trace)) :
                  get_leaf_names(tree, trace)[x] = sisters[k]]_vars

====
